---- MODULE Spec2Model ----
(***************************************************************************)
(* Model of the two batch stages of the repository:                        *)
(*   SharepointDataExtractor.py   - paginated fetch of one day of reports  *)
(*                                  and the single raw-store put           *)
(*   S3toExHistoricalIndexer.py   - per-file / per-record enrichment and   *)
(*                                  index writes                           *)
(* Every external answer (HTTP response, storage put, inference call,      *)
(* index write) is an input chosen by the environment.                     *)
(***************************************************************************)
EXTENDS Integers, Sequences, FiniteSets, TLC

(* ---------------- bounds of the model ---------------- *)
MaxPages == 2
MaxItems == 2
MaxFiles == 2
MaxRecords == 2
\* listing pages answered by list_objects_v2, keys per listing page
MaxListPages == 2
MaxKeys == 2
\* characters of text in one section of a report body
MaxText == 1

(* ---------------- program constants ------------------ *)
\* range(3): attempts per page
MaxAttempts == 3
\* Python None as the value of next_link / of an absent JSON key
NoLink == 0
\* no continuation token: the None of line 126, an absent NextContinuationToken
NoToken == 0

VARIABLES
    \* ---- inputs of an extraction run
    pages,                 \* the remote API: page index -> JSON page
    target_date,           \* TARGET_DATE
    missing_env,           \* one of the five SharePoint settings is unset
    BUCKET_NAME,           \* "" when unset
    urllib_bound,          \* whether the name urllib resolves at line 121
    \* ---- state of process_sharepoint_data_for_batch
    pc,
    next_link,
    count,
    current_password,
    all_sharepoint_items,
    \* ---- observable effects
    log,                   \* the requests sent for the page being fetched
    fetched,               \* the URLs answered 200, in order
    nreq,                  \* number of requests.get calls of the run
    url_requests,          \* per page URL: the requests.get calls made for it
    puts,                  \* the put_object calls, in order
    ret,                   \* returned status, "none" if none
    s3_output_key,
    raised,                \* exception that escaped, "none" if none
    store_ret,             \* what store_json_to_s3 returned, "none" if it did not return
    exitCode,              \* -1 while running
    \* ---- input of an indexing run
    ienv_missing,          \* one of the seven settings of line 154 is unset
    \* ---- state of process_s3_data_and_index_es
    ipc,
    nfiles,                \* len(all_json_keys)
    fi,                    \* position in all_json_keys, from 1
    ri,                    \* position in raw_reports_in_file, from 1
    cur_len,               \* len(raw_reports_in_file)
    summary_text,          \* processed_item['詳細要約'], "unset" before the call
    full_vec,              \* processed_item['全文ベクトル']
    sum_vec,               \* processed_item['全文要約ベクトル']
    successful_indexes_in_file,
    total_reports_indexed,
    total_files_processed,
    \* ---- observable effects of the indexing stage
    es_docs,               \* the documents handed to the index writer, in order
    done_recs,             \* the records that reached a terminal state, in order
    file_log,              \* per object read: the number of records it yielded
    last_kind,             \* what the last get_object + json.loads gave, "none" before
    rec_calls,             \* the Bedrock and index calls made for the record worked on last
    listed,                \* list_json_files_from_s3 has been called
    iret,
    iraised,
    iexit,
    \* ---- list_json_files_from_s3: input, state, effects
    S3_BUCKET_NAME,        \* "" when unset
    lpc,
    served,                \* the listing pages list_objects_v2 has answered, in order
    list_calls,            \* the ContinuationToken of each list_objects_v2 call
    continuation_token,
    files,
    json_keys,
    lraised,
    \* ---- extract_sections: argument, position, result
    body_text_html,        \* the argument, as a sequence of parts (labels, characters)
    xpc,
    sections

evars == <<pages, target_date, missing_env, BUCKET_NAME, urllib_bound, pc, next_link,
           count, current_password, all_sharepoint_items, log, fetched, nreq, url_requests,
           puts, ret, s3_output_key, raised, store_ret, exitCode>>

ivars == <<ipc, nfiles, fi, ri, cur_len, summary_text, full_vec, sum_vec,
           successful_indexes_in_file, total_reports_indexed, total_files_processed,
           es_docs, done_recs, file_log, iret, iraised, iexit, ienv_missing,
           last_kind, listed, rec_calls>>

\* list_json_files_from_s3 called on its own
lvars == <<S3_BUCKET_NAME, lpc, served, list_calls, continuation_token, files,
           json_keys, lraised>>

\* extract_sections called on its own
xvars == <<body_text_html, xpc, sections>>

vars == <<evars, ivars, lvars, xvars>>

(* ======================================================================= *)
(*                       SharepointDataExtractor.py                        *)
(* ======================================================================= *)

LOGINPASSWORD == "loginpw"
S3_OUTPUT_PREFIX == "raw_sharepoint_reports_daily/"

TargetDates == {"", "bad", "2024-01-01", "2024-01-02", "2024-1-2"}
Buckets == {"", "bkt"}
Shapes == {"odata", "next", "both"}
Responses == {"200", "401", "httperr", "other", "exc"}
PutOutcomes == {"ok", "error"}

\* A page of the remote API. Its items are tagged <<page, position>>. A page
\* that is not the last one carries the link to page k+1 under odata.nextLink,
\* under __next, or under odata.nextLink with a different __next beside it.
MkPage(k, c, shape, last) ==
    [value |-> [j \in 1..c |-> <<k, j>>],
     odata |-> IF ~last /\ shape \in {"odata", "both"} THEN k + 1 ELSE NoLink,
     next  |-> IF last THEN NoLink
               ELSE IF shape = "next" THEN k + 1
               ELSE IF shape = "both" THEN k
               ELSE NoLink]

Chains ==
    UNION { { [k \in 1..n |-> MkPage(k, c[k], s[k], k = n)] :
                c \in [1..n -> 0..MaxItems], s \in [1..n -> Shapes] } :
            n \in 1..MaxPages }

\* json_data.get('odata.nextLink', json_data.get('__next'))
NextLinkOf_PreferNext(page) == IF page.next # NoLink THEN page.next ELSE page.odata

NextLinkOf(page) == IF page.odata # NoLink THEN page.odata ELSE page.next

\* `if count < 2: continue` in the 401 branch and in the except clause
RetryAllowed_FourthAttempt(c) == c < 3

RetryAllowed_TwoAttempts(c) == c < 1

RetryAllowed(c) == c < 2

\* all_sharepoint_items.extend(json_data.get('value', []))
ExtendItems_Replace(items, json_data) == json_data.value

ExtendItems(items, json_data) == items \o json_data.value

\* datetime.strptime(target_date_str, '%Y-%m-%d') followed by
\* strftime('%Y-%m-%d'): the day, zero-padded whatever the padding of the input
DayOf_Raw(date) == date

DayOf(date) == IF date = "2024-1-2" THEN "2024-01-02" ELSE date

\* the check of required_envs (lines 94-97)
EnvCheckFails_ForgetsBucket(missing, bucket) == missing

EnvCheckFails(missing, bucket) == missing \/ bucket = ""

\* f"{S3_OUTPUT_PREFIX}{date}_raw_reports.json"
OutputKey(prefix, date) == <<prefix, date, "_raw_reports.json">>

\* (the same without the BUCKET_NAME guard of lines 76-78)
store_json_to_s3_NoBucketGuard(bucket, data, filename, put) ==
    [ret |-> "True", raised |-> "none",
     calls |-> <<[Bucket |-> bucket, Key |-> filename, Body |-> data, outcome |-> put]>>]

\* store_json_to_s3: the result of one call, given the answer of put_object.
\* The except clause calls print(..., exc_info=True), which raises TypeError.
store_json_to_s3(bucket, data, filename, put) ==
    IF bucket = ""
    THEN [ret |-> "False", raised |-> "none", calls |-> <<>>]
    ELSE IF put = "ok"
    THEN [ret |-> "True", raised |-> "none",
          calls |-> <<[Bucket |-> bucket, Key |-> filename, Body |-> data, outcome |-> put]>>]
    ELSE [ret |-> "none", raised |-> "TypeError",
          calls |-> <<[Bucket |-> bucket, Key |-> filename, Body |-> data, outcome |-> put]>>]

\* __main__: exit(0) on status SUCCESS, exit(1) otherwise
ExitCodeOf(status, exc) == IF exc = "none" /\ status = "SUCCESS" THEN 0 ELSE 1

Raise(exc) ==
    /\ raised' = exc
    /\ pc' = "done"
    /\ exitCode' = ExitCodeOf("none", exc)
    /\ UNCHANGED <<ret, s3_output_key>>

\* the keys of the dictionary extract_sections returns: 概要, 詳細, 所感
SectionNames == {"Gaiyou", "Shousai", "Shokan"}

NoSections == [k \in SectionNames |-> <<>>]

\* extract_sections is not being called on its own
IdleSections == body_text_html = <<>> /\ xpc = "idle" /\ sections = NoSections

\* list_json_files_from_s3 is not being called on its own
IdleLister ==
    /\ S3_BUCKET_NAME = "" /\ lpc = "idle"
    /\ served = <<>> /\ list_calls = <<>> /\ continuation_token = NoToken
    /\ files = <<>> /\ json_keys = <<>> /\ lraised = "none"

\* The indexing stage is not running
IdleIndex ==
    /\ ienv_missing = FALSE
    /\ ipc = "idle" /\ nfiles = 0 /\ fi = 0 /\ ri = 0 /\ cur_len = 0
    /\ summary_text = "unset" /\ full_vec = "unset" /\ sum_vec = "unset"
    /\ successful_indexes_in_file = 0
    /\ total_reports_indexed = 0
    /\ total_files_processed = 0
    /\ es_docs = <<>> /\ done_recs = <<>> /\ file_log = <<>>
    /\ last_kind = "none" /\ listed = FALSE /\ rec_calls = <<>>
    /\ iret = "none" /\ iraised = "none" /\ iexit = -1

\* The record lists a caller can hand to store_json_to_s3
RecordLists == UNION { [1..n -> {<<1, j>> : j \in 1..MaxItems}] : n \in 0..MaxItems }

\* The job is launched (python SharepointDataExtractor.py) with its environment.
InitRun ==
    /\ pages \in Chains
    /\ target_date \in TargetDates
    /\ missing_env \in BOOLEAN
    /\ BUCKET_NAME \in Buckets
    /\ urllib_bound \in BOOLEAN
    /\ pc = "start"
    /\ all_sharepoint_items = <<>>

\* store_json_to_s3(data, filename) is called on its own, with the module's
\* BUCKET_NAME as the environment set it.
InitStoreCall ==
    /\ pages = <<>>
    /\ target_date \in TargetDates \ {"", "bad"}
    /\ missing_env = FALSE
    /\ BUCKET_NAME \in Buckets
    /\ urllib_bound = FALSE
    /\ pc = "call_store"
    /\ all_sharepoint_items \in RecordLists

\* Nothing has been requested, stored or returned yet
InitEffectsOfExtract ==
    /\ next_link = NoLink
    /\ count = 0
    /\ current_password = LOGINPASSWORD
    /\ log = <<>>
    /\ fetched = <<>>
    /\ nreq = 0
    /\ url_requests = [u \in 1..Len(pages) |-> 0]
    /\ puts = <<>>
    /\ ret = "none"
    /\ s3_output_key = "none"
    /\ raised = "none"
    /\ store_ret = "none"
    /\ exitCode = -1

InitEffects == InitEffectsOfExtract /\ IdleIndex /\ IdleLister /\ IdleSections

InitExtract == InitRun /\ InitEffects

InitStage1 == (InitRun \/ InitStoreCall) /\ InitEffects

\* __main__ up to the call, then lines 90-121 of process_sharepoint_data_for_batch.
\*   - an unparsable date enters the except of line 109, whose
\*     print(..., exc_info=True) raises TypeError before the ValueError of line 111
\*   - line 121 calls urllib.parse.urlencode; the file imports urllib3 and never
\*     urllib, so the name resolves only if the launching environment binds it
\*     (urllib_bound), and the run ends in NameError otherwise
Start ==
    /\ pc = "start"
    /\ UNCHANGED <<ivars, lvars, xvars>>
    /\ UNCHANGED <<pages, target_date, missing_env, BUCKET_NAME, urllib_bound, count,
                   current_password, all_sharepoint_items, log, fetched, nreq,
                   url_requests, puts, store_ret>>
    /\ IF target_date = ""
       THEN /\ pc' = "done"
            /\ exitCode' = 1
            /\ UNCHANGED <<next_link, ret, s3_output_key, raised>>
       ELSE IF EnvCheckFails(missing_env, BUCKET_NAME)
       THEN Raise("ValueError") /\ UNCHANGED next_link
       ELSE IF target_date = "bad"
       THEN Raise("TypeError") /\ UNCHANGED next_link
       ELSE IF ~urllib_bound
       THEN Raise("NameError") /\ UNCHANGED next_link
       ELSE /\ pc' = "request"
            /\ next_link' = 1
            /\ UNCHANGED <<ret, s3_output_key, raised, exitCode>>

\* `continue` inside `for count in range(3)`: the next pass, or, when the range is
\* used up, the raise of line 153 (sharepoint_response is still None)
Retry_Unbounded == count' = count + 1 /\ UNCHANGED <<pc, ret, s3_output_key, raised, exitCode>>

Retry ==
    IF count + 1 < MaxAttempts
    THEN count' = count + 1 /\ UNCHANGED <<pc, ret, s3_output_key, raised, exitCode>>
    ELSE Raise("FetchException") /\ UNCHANGED count

\* One pass of `for count in range(3)` for the page next_link (lines 126-150),
\* and on a 200 the lines after the loop (152-157).
\*   "httperr": a status >= 400 other than 401; raise_for_status() raises
\*              HTTPError, a RequestException, inside the try block
\*   "other":   any other status; raise_for_status() returns, the pass ends
\*   "exc":     requests.get raises a RequestException
Request(resp) ==
    /\ pc = "request"
    /\ next_link # NoLink
    /\ Len(fetched) <= MaxPages      \* bounds a run that would never leave the loop
    /\ UNCHANGED <<ivars, lvars, xvars>>
    /\ nreq' = nreq + 1
    /\ url_requests' = [url_requests EXCEPT ![next_link] = @ + 1]
    /\ log' = (IF count = 0 THEN <<>> ELSE log)
              \o <<[url |-> next_link, password |-> current_password, resp |-> resp]>>
    /\ UNCHANGED <<pages, target_date, missing_env, BUCKET_NAME, urllib_bound,
                   current_password, puts, store_ret>>
    /\ CASE resp = "200" ->
              /\ all_sharepoint_items' = ExtendItems(all_sharepoint_items, pages[next_link])
              /\ fetched' = Append(fetched, next_link)
              /\ next_link' = NextLinkOf(pages[next_link])
              /\ count' = 0
              /\ pc' = IF NextLinkOf(pages[next_link]) = NoLink THEN "finish" ELSE "request"
              /\ UNCHANGED <<ret, s3_output_key, raised, exitCode>>
         [] resp = "401" ->
              /\ UNCHANGED <<all_sharepoint_items, fetched, next_link>>
              /\ IF RetryAllowed(count)
                 THEN Retry
                 ELSE Raise("AuthException") /\ UNCHANGED count
         [] resp = "httperr" ->
              /\ UNCHANGED <<all_sharepoint_items, fetched, next_link>>
              /\ IF RetryAllowed(count)
                 THEN Retry
                 ELSE Raise("HTTPError") /\ UNCHANGED count
         [] resp = "exc" ->
              /\ UNCHANGED <<all_sharepoint_items, fetched, next_link>>
              /\ IF RetryAllowed(count)
                 THEN Retry
                 ELSE Raise("RequestException") /\ UNCHANGED count
         [] resp = "other" ->
              /\ UNCHANGED <<all_sharepoint_items, fetched, next_link>>
              /\ Retry

\* Lines 159-180, and the exit code __main__ derives from the result
Finish(put) ==
    /\ pc = "finish"
    /\ UNCHANGED <<ivars, lvars, xvars>>
    /\ UNCHANGED <<pages, target_date, missing_env, BUCKET_NAME, urllib_bound, next_link,
                   count, current_password, all_sharepoint_items, log, fetched, nreq,
                   url_requests>>
    /\ IF all_sharepoint_items = <<>>
       THEN /\ ret' = "SUCCESS"
            /\ s3_output_key' = "none"
            /\ pc' = "done"
            /\ exitCode' = ExitCodeOf("SUCCESS", "none")
            /\ UNCHANGED <<puts, raised, store_ret>>
       ELSE LET r == store_json_to_s3(BUCKET_NAME, all_sharepoint_items,
                                      OutputKey(S3_OUTPUT_PREFIX, DayOf(target_date)), put)
            IN /\ puts' = puts \o r.calls
               /\ store_ret' = r.ret
               /\ IF r.raised # "none"
                  THEN Raise(r.raised)
                  ELSE IF r.ret = "False"
                  THEN Raise("StoreException")
                  ELSE /\ ret' = "SUCCESS"
                       /\ s3_output_key' = OutputKey(S3_OUTPUT_PREFIX, DayOf(target_date))
                       /\ pc' = "done"
                       /\ exitCode' = ExitCodeOf("SUCCESS", "none")
                       /\ UNCHANGED raised

\* One call of store_json_to_s3(all_sharepoint_items, key) from outside the run
StoreCall(put) ==
    /\ pc = "call_store"
    /\ UNCHANGED <<ivars, lvars, xvars>>
    /\ UNCHANGED <<pages, target_date, missing_env, BUCKET_NAME, urllib_bound, next_link,
                   count, current_password, all_sharepoint_items, log, fetched, nreq,
                   url_requests, ret, s3_output_key, exitCode>>
    /\ LET r == store_json_to_s3(BUCKET_NAME, all_sharepoint_items,
                                 OutputKey(S3_OUTPUT_PREFIX, target_date), put)
       IN /\ puts' = puts \o r.calls
          /\ store_ret' = r.ret
          /\ raised' = r.raised
          /\ pc' = "store_ended"

NextExtract ==
    \/ Start
    \/ \E resp \in Responses : Request(resp)
    \/ \E put \in PutOutcomes : Finish(put)

NextStage1 ==
    \/ NextExtract
    \/ \E put \in PutOutcomes : StoreCall(put)

\* python SharepointDataExtractor.py
SpecExtract == InitExtract /\ [][NextExtract]_vars

\* the job, or store_json_to_s3 called on its own: either entry of SharepointDataExtractor.py
SpecStage1 == InitStage1 /\ [][NextStage1]_vars

(* ======================================================================= *)
(*                       S3toExHistoricalIndexer.py                        *)
(* ======================================================================= *)

\* what s3_client.get_object + json.loads + the two checks of lines 188-194 give
FileKinds == {"unreadable", "badjson", "notlist", "empty", "list"}
\* what bedrock_runtime.invoke_model answers to the summary request
SummaryAnswers == {"text", "blank", "nocompletion", "error"}
\* what bedrock_runtime.invoke_model answers to an embedding request
EmbeddingAnswers == {"vec", "nofield", "error"}
\* what the index writer does with a document
IndexAnswers == {"True", "False", "raise"}

\* summarize_text_with_bedrock: the stripped completion; an invoke_model error or
\* a missing completion enters the except clause, whose print(..., exc_info=True)
\* raises TypeError
summarize_text_with_bedrock(model_id_set, answer) ==
    IF ~model_id_set THEN "None"
    ELSE IF answer = "text" THEN "text"
    ELSE IF answer = "blank" THEN ""
    ELSE "raise"

\* get_embedding_from_bedrock: response_body.get("embedding"); an invoke_model
\* error enters the except clause, whose print(..., exc_info=True) raises TypeError
get_embedding_from_bedrock(model_id_set, answer) ==
    IF ~model_id_set THEN "None"
    ELSE IF answer = "vec" THEN "vec"
    ELSE IF answer = "nofield" THEN "None"
    ELSE "raise"

\* index_data_to_elasticsearch(es_client, es_doc): referenced at line 266 and not
\* defined in the file; per the Index Writer contract it returns a boolean.
\* "raise" is the call ending in an exception, which is also what the reference
\* to the undefined name does.
index_data_to_elasticsearch(answer) == answer

\* `if not summary_text`
SummaryMissing_NoneOnly(s_) == s_ = "None"

SummaryMissing(s_) == s_ \in {"None", ""}

\* `if processed_item[...] is None`
EmbeddingMissing_Never(v) == FALSE

EmbeddingMissing(v) == v = "None"

\* `continue` of lines 220, 237, 247, 272: the for loop of line 197 goes on to the
\* next record when there is one
ContinueAfterSkip_Break(r, n) == FALSE

ContinueAfterSkip(r, n) == r < n

\* What becomes of an object once read (lines 183-196 and 278-285): its records
\* are processed, or a `continue` takes the loop of line 181 to the next key:
\* the two `continue` of lines 190 and 194, and those of the two except clauses
FileOutcome_RaiseOnMalformed(kind) ==
    IF kind = "list" THEN "records"
    ELSE IF kind \in {"notlist", "empty"} THEN "raise" ELSE "continue"

FileOutcome_RaiseOnFailure(kind) ==
    IF kind = "list" THEN "records"
    ELSE IF kind \in {"unreadable", "badjson"} THEN "raise" ELSE "continue"

FileOutcome(kind) == IF kind = "list" THEN "records" ELSE "continue"

\* `if index_data_to_elasticsearch(es_client, es_doc):` the increment of line 267
\* is made for a true result only (an exception skips it)
WriteSucceeded_CountsFalse(r) == r \in {"True", "False"}

WriteSucceeded(r) == r = "True"

\* the for loops of lines 181 and 197 take the element after the current one
Successor_Same(i) == i

Successor(i) == i + 1

\* `total_reports_indexed += successful_indexes_in_file`
AddToTotal_Assign(total, in_file) == in_file

AddToTotal(total, in_file) == total + in_file

InitIndex ==
    /\ ienv_missing \in BOOLEAN
    /\ ipc = "start" /\ nfiles = 0 /\ fi = 0 /\ ri = 0 /\ cur_len = 0
    /\ summary_text = "unset" /\ full_vec = "unset" /\ sum_vec = "unset"
    /\ successful_indexes_in_file = 0
    /\ total_reports_indexed = 0
    /\ total_files_processed = 0
    /\ es_docs = <<>> /\ done_recs = <<>> /\ file_log = <<>>
    /\ last_kind = "none" /\ listed = FALSE /\ rec_calls = <<>>
    /\ iret = "none" /\ iraised = "none" /\ iexit = -1
    \* the extraction job is not running
    /\ pages = <<>> /\ target_date = "" /\ missing_env = FALSE /\ BUCKET_NAME = ""
    /\ urllib_bound = FALSE /\ pc = "idle" /\ all_sharepoint_items = <<>>
    /\ InitEffectsOfExtract
    /\ IdleLister
    /\ IdleSections

\* an exception leaves process_s3_data_and_index_es; __main__ exits 1
IRaise(exc) ==
    /\ iraised' = exc
    /\ ipc' = "done"
    /\ iexit' = 1
    /\ UNCHANGED iret

\* the function returns status SUCCESS; __main__ exits 0
IReturnSuccess ==
    /\ iret' = "SUCCESS"
    /\ ipc' = "done"
    /\ iexit' = 0
    /\ UNCHANGED iraised

\* Lines 153-179: the environment check, the listing, the search-engine client.
\*   list_ok: list_objects_v2 did not raise; listing: the number of .json keys
IStart(list_ok, listing, es_up) ==
    /\ ipc = "start"
    /\ UNCHANGED <<evars, lvars, xvars, ienv_missing, last_kind, rec_calls>>
    /\ listed' = ~ienv_missing
    /\ UNCHANGED <<ri, cur_len, summary_text, full_vec, sum_vec,
                   successful_indexes_in_file, total_reports_indexed,
                   total_files_processed, es_docs, done_recs, file_log>>
    /\ IF ienv_missing
       THEN IRaise("ValueError") /\ UNCHANGED <<nfiles, fi>>
       ELSE IF ~list_ok
       THEN IRaise("ListingError") /\ UNCHANGED <<nfiles, fi>>
       ELSE IF listing = 0
       THEN IReturnSuccess /\ UNCHANGED <<nfiles, fi>>
       ELSE IF ~es_up
       THEN IRaise("ConnectionError") /\ nfiles' = listing /\ UNCHANGED fi
       ELSE /\ nfiles' = listing
            /\ fi' = 1
            /\ ipc' = "file"
            /\ UNCHANGED <<iret, iraised, iexit>>

\* the for loop of line 181 goes on to the next key, or the function returns
NextFile ==
    IF fi < nfiles
    THEN /\ fi' = Successor(fi)
         /\ ipc' = "file"
         /\ UNCHANGED <<iret, iraised, iexit>>
    ELSE /\ IReturnSuccess
         /\ UNCHANGED fi

\* Lines 182-196: one object is read and parsed.
ReadFile(kind, n) ==
    /\ ipc = "file"
    /\ UNCHANGED <<evars, lvars, xvars, ienv_missing, listed, rec_calls>>
    /\ last_kind' = kind
    /\ UNCHANGED <<nfiles, summary_text, full_vec, sum_vec, total_reports_indexed,
                   total_files_processed, es_docs, done_recs>>
    /\ IF FileOutcome(kind) = "records"
       THEN /\ cur_len' = n
            /\ ri' = 1
            /\ successful_indexes_in_file' = 0
            /\ file_log' = Append(file_log, n)
            /\ ipc' = "summary"
            /\ UNCHANGED <<fi, iret, iraised, iexit>>
       ELSE /\ file_log' = Append(file_log, 0)
            /\ UNCHANGED <<cur_len, ri, successful_indexes_in_file>>
            /\ IF FileOutcome(kind) = "continue"
               THEN NextFile
               ELSE IRaise("FileError") /\ UNCHANGED fi

\* Lines 274-276 after the last record of a file, then the next key
EndFile(in_file) ==
    /\ total_reports_indexed' = AddToTotal(total_reports_indexed, in_file)
    /\ total_files_processed' = total_files_processed + 1
    /\ UNCHANGED ri
    /\ NextFile

\* The record ri reaches a terminal state; the loop of line 197 goes on.
EndRecord(state, more, in_file) ==
    /\ done_recs' = Append(done_recs, [file |-> fi, rec |-> ri, state |-> state])
    /\ summary_text' = "unset"
    /\ full_vec' = "unset"
    /\ sum_vec' = "unset"
    /\ successful_indexes_in_file' = in_file
    /\ UNCHANGED <<nfiles, cur_len, file_log>>
    /\ IF more
       THEN /\ ri' = Successor(ri)
            /\ ipc' = "summary"
            /\ UNCHANGED <<fi, total_reports_indexed, total_files_processed,
                           iret, iraised, iexit>>
       ELSE EndFile(in_file)

\* (the same with the failure leaving the function instead)
SkipRecord_Raises ==
    /\ IRaise("RecordError")
    /\ UNCHANGED <<nfiles, fi, ri, cur_len, summary_text, full_vec, sum_vec,
                   successful_indexes_in_file, total_reports_indexed,
                   total_files_processed, es_docs, done_recs, file_log>>

\* a step of the record failed: warning and `continue`, or the except of line 269
SkipRecord ==
    /\ EndRecord("SKIPPED", ContinueAfterSkip(ri, cur_len), successful_indexes_in_file)
    /\ UNCHANGED es_docs

\* Lines 199-221: the fields of the record, the text of its body, the summary.
\*   well_formed: the item is a mapping whose mrtBody, if present, is a string
Summarize(well_formed, answer) ==
    /\ ipc = "summary"
    /\ UNCHANGED <<evars, lvars, xvars, ienv_missing, last_kind, listed>>
    /\ rec_calls' = IF well_formed
                     THEN <<[call |-> "summary", ok |-> (answer = "text")]>>
                     ELSE <<>>
    /\ LET s_ == summarize_text_with_bedrock(TRUE, answer)
       IN IF ~well_formed \/ s_ = "raise" \/ SummaryMissing(s_)
          THEN SkipRecord
          ELSE /\ summary_text' = s_
               /\ ipc' = "emb_full"
               /\ UNCHANGED <<nfiles, fi, ri, cur_len, full_vec, sum_vec,
                              successful_indexes_in_file, total_reports_indexed,
                              total_files_processed, es_docs, done_recs, file_log,
                              iret, iraised, iexit>>

\* Lines 223-237: the embedding of title + summary + body
EmbedFull(answer) ==
    /\ ipc = "emb_full"
    /\ UNCHANGED <<evars, lvars, xvars, ienv_missing, last_kind, listed>>
    /\ rec_calls' = Append(rec_calls, [call |-> "emb_full", ok |-> (answer = "vec")])
    /\ LET v == get_embedding_from_bedrock(TRUE, answer)
       IN IF v = "raise" \/ EmbeddingMissing(v)
          THEN SkipRecord
          ELSE /\ full_vec' = v
               /\ ipc' = "emb_sum"
               /\ UNCHANGED <<nfiles, fi, ri, cur_len, summary_text, sum_vec,
                              successful_indexes_in_file, total_reports_indexed,
                              total_files_processed, es_docs, done_recs, file_log,
                              iret, iraised, iexit>>

\* Lines 239-247: the embedding of title + summary + generated summary
EmbedSummary(answer) ==
    /\ ipc = "emb_sum"
    /\ UNCHANGED <<evars, lvars, xvars, ienv_missing, last_kind, listed>>
    /\ rec_calls' = Append(rec_calls, [call |-> "emb_sum", ok |-> (answer = "vec")])
    /\ LET v == get_embedding_from_bedrock(TRUE, answer)
       IN IF v = "raise" \/ EmbeddingMissing(v)
          THEN SkipRecord
          ELSE /\ sum_vec' = v
               /\ ipc' = "index"
               /\ UNCHANGED <<nfiles, fi, ri, cur_len, summary_text, full_vec,
                              successful_indexes_in_file, total_reports_indexed,
                              total_files_processed, es_docs, done_recs, file_log,
                              iret, iraised, iexit>>

\* Lines 251-267: the document is assembled and handed to the index writer
IndexDoc(answer) ==
    /\ ipc = "index"
    /\ UNCHANGED <<evars, lvars, xvars, ienv_missing, last_kind, listed>>
    /\ rec_calls' = Append(rec_calls, [call |-> "index", ok |-> (answer = "True")])
    /\ LET r == index_data_to_elasticsearch(answer)
       IN /\ es_docs' = Append(es_docs,
                 [file |-> fi, rec |-> ri, summary |-> summary_text,
                  full |-> full_vec, sv |-> sum_vec, indexed |-> (r = "True")])
          /\ EndRecord("HANDED", ri < cur_len,
                       IF WriteSucceeded(r) THEN successful_indexes_in_file + 1
                                            ELSE successful_indexes_in_file)

NextIndex ==
    \/ \E list_ok \in BOOLEAN, listing \in 0..MaxFiles, es_up \in BOOLEAN :
          IStart(list_ok, listing, es_up)
    \/ \E kind \in FileKinds, n \in 1..MaxRecords : ReadFile(kind, n)
    \/ \E well_formed \in BOOLEAN, answer \in SummaryAnswers : Summarize(well_formed, answer)
    \/ \E answer \in EmbeddingAnswers : EmbedFull(answer)
    \/ \E answer \in EmbeddingAnswers : EmbedSummary(answer)
    \/ \E answer \in IndexAnswers : IndexDoc(answer)

\* python S3toExHistoricalIndexer.py
SpecIndex == InitIndex /\ [][NextIndex]_vars

\* The same run in which every call returns (get_object, invoke_model, the index
\* write): the function is sequential, so a step that can be taken is taken.
SpecIndexFair == SpecIndex /\ WF_vars(NextIndex)

(* ------------------------------ either job ----------------------------- *)

\* one of the two batch jobs is launched
InitJobs == InitExtract \/ InitIndex

NextJobs == NextExtract \/ NextIndex

SpecJobs == InitJobs /\ [][NextJobs]_vars

(* ------------------- list_json_files_from_s3 on its own ----------------- *)

\* Key names as sequences of parts; the last part is what endswith looks at.
\* A data file, a backup of one (.json inside the name), another kind of file.
KeyNames == { <<"reports/", "r", ".json">>,
              <<"reports/", "r", ".json", ".bak">>,
              <<"reports/", "r", ".txt">> }

\* str.endswith
EndsWith_Contains(name, suffix) == \E i \in 1..Len(name) : name[i] = suffix

EndsWith(name, suffix) == Len(name) > 0 /\ name[Len(name)] = suffix

\* The responses list_objects_v2 can give as the k-th page of a listing: without
\* 'Contents', or with 1..MaxKeys objects (tagged <<page, position>>); with a
\* NextContinuationToken (the token that asks for page k+1) or without.
ListingPages(k) ==
    { [has_contents |-> hc, Contents |-> c, NextContinuationToken |-> t] :
        hc \in BOOLEAN,
        c \in UNION { [1..n -> KeyNames] : n \in 0..MaxKeys },
        t \in {NoToken} \cup (IF k < MaxListPages THEN {k + 1} ELSE {}) }

ObjectsOf(k, page) ==
    [j \in 1..Len(page.Contents) |-> [Key |-> [id |-> <<k, j>>, name |-> page.Contents[j]]]]

\* [obj['Key'] for obj in files if obj['Key'].endswith('.json')]
RECURSIVE JsonKeysOf(_)
JsonKeysOf(fs) ==
    IF fs = <<>> THEN <<>>
    ELSE (IF EndsWith(fs[1].Key.name, ".json") THEN <<fs[1].Key>> ELSE <<>>)
         \o JsonKeysOf(Tail(fs))

\* list_json_files_from_s3() is called, with S3_BUCKET_NAME as the environment set it
InitLister ==
    /\ S3_BUCKET_NAME \in {"", "bucket"}
    /\ lpc = "call"
    /\ served = <<>> /\ list_calls = <<>> /\ continuation_token = NoToken
    /\ files = <<>> /\ json_keys = <<>> /\ lraised = "none"
    \* neither job is running
    /\ pages = <<>> /\ target_date = "" /\ missing_env = FALSE /\ BUCKET_NAME = ""
    /\ urllib_bound = FALSE /\ pc = "idle" /\ all_sharepoint_items = <<>>
    /\ InitEffectsOfExtract
    /\ IdleIndex
    /\ IdleSections

\* Lines 120-126
ListStart ==
    /\ lpc = "call"
    /\ UNCHANGED <<evars, ivars, xvars>>
    /\ UNCHANGED <<S3_BUCKET_NAME, served, list_calls, continuation_token, files, json_keys>>
    /\ IF S3_BUCKET_NAME = ""
       THEN lraised' = "ValueError" /\ lpc' = "done"
       ELSE lpc' = "list" /\ UNCHANGED lraised

\* One pass of `while True` (lines 128-146), and after the break lines 148-149.
\*   ok: list_objects_v2 answered; otherwise its exception leaves the function
ListPage(ok, page) ==
    /\ lpc = "list"
    /\ UNCHANGED <<evars, ivars, xvars>>
    /\ UNCHANGED S3_BUCKET_NAME
    /\ list_calls' = Append(list_calls, continuation_token)
    /\ IF ~ok
       THEN /\ lraised' = "ClientError"
            /\ lpc' = "done"
            /\ UNCHANGED <<served, continuation_token, files, json_keys>>
       ELSE /\ page.has_contents \/ page.Contents = <<>>
            /\ served' = Append(served, page)
            /\ LET fs == IF page.has_contents
                         THEN files \o ObjectsOf(Len(served) + 1, page)
                         ELSE files
               IN /\ files' = fs
                  /\ IF page.NextContinuationToken # NoToken
                     THEN /\ continuation_token' = page.NextContinuationToken
                          /\ UNCHANGED <<lpc, json_keys>>
                     ELSE /\ json_keys' = JsonKeysOf(fs)
                          /\ lpc' = "done"
                          /\ UNCHANGED continuation_token
            /\ UNCHANGED lraised

NextLister ==
    \/ ListStart
    \/ \E ok \in BOOLEAN, page \in ListingPages(Len(served) + 1) : ListPage(ok, page)

SpecLister == InitLister /\ [][NextLister]_vars

(* ----------------------- extract_sections on its own -------------------- *)

\* A body is a sequence of parts: the three labels 概要： 詳細： 所感： (written
\* Gaiyou: Shousai: Shokan: here), single characters of text, the space, the
\* line break "\n" and the tag "<br/>".
Labels == <<"Gaiyou:", "Shousai:", "Shokan:">>

Letters == <<"A", "B", "C">>

\* \s
IsSpace(t) == t \in {" ", "\n"}

\* the alternatives <br/> and \n of (?:<br/>|\n|$); the alternative $ can match
\* only where nothing but a final line break follows, so never before a label
IsSeparator(t) == t \in {"<br/>", "\n"}

\* str.strip()
RECURSIVE StripLeft(_)
StripLeft(t) == IF t # <<>> /\ IsSpace(Head(t)) THEN StripLeft(Tail(t)) ELSE t

RECURSIVE StripRight(_)
StripRight(t) ==
    IF t # <<>> /\ IsSpace(t[Len(t)]) THEN StripRight(SubSeq(t, 1, Len(t) - 1)) ELSE t

Strip(t) == StripRight(StripLeft(t))

\* the longest run of white space that starts at position i: what \s* takes first
RECURSIVE SpaceRun(_, _)
SpaceRun(t, i) == IF i <= Len(t) /\ IsSpace(t[i]) THEN 1 + SpaceRun(t, i + 1) ELSE 0

\* the positions from a on where a separator stands right before the label close
GroupEnds(t, a, close) == {q \in a..(Len(t) - 1) : IsSeparator(t[q]) /\ t[q + 1] = close}

\* the lengths \s* can have after the label at p for the pattern to match
SpaceWidths(t, p, close) ==
    {w \in 0..SpaceRun(t, p + 1) : GroupEnds(t, p + 1 + w, close) # {}}

Least(S) == CHOOSE x \in S : \A y \in S : x <= y

Greatest(S) == CHOOSE x \in S : \A y \in S : x >= y

\* re.search(open \s*(.*?)(?:<br/>|\n|$) close, text, re.DOTALL), then
\* group(1).strip(), or "N/A" without match: the leftmost label from which the
\* pattern matches, the longest \s* that lets it match, the shortest group
SectionBetween(t, open, close) ==
    LET starts == {p \in 1..Len(t) : t[p] = open /\ SpaceWidths(t, p, close) # {}}
    IN IF starts = {} THEN <<"N/A">>
       ELSE LET p == Least(starts)
                w == Greatest(SpaceWidths(t, p, close))
                q == Least(GroupEnds(t, p + 1 + w, close))
            IN Strip(SubSeq(t, p + 1 + w, q - 1))

\* re.search(open \s*(.*), text, re.DOTALL), then group(1).strip(), or "N/A"
SectionToEnd(t, open) ==
    LET starts == {p \in 1..Len(t) : t[p] = open}
    IN IF starts = {} THEN <<"N/A">>
       ELSE LET p == Least(starts)
            IN Strip(SubSeq(t, p + 1 + SpaceRun(t, p + 1), Len(t)))

extract_sections(t) ==
    [k \in SectionNames |->
        IF k = "Gaiyou" THEN SectionBetween(t, Labels[1], Labels[2])
        ELSE IF k = "Shousai" THEN SectionBetween(t, Labels[2], Labels[3])
        ELSE SectionToEnd(t, Labels[3])]

\* the texts of up to MaxText characters
TextsOf(c) == { [j \in 1..n |-> c] : n \in 0..MaxText }

\* The i-th section of a body: its label or none, white space or none, its
\* text, and then a line break, a <br/> tag, or nothing
SectionTexts(i) ==
    { label \o lead \o text \o sep :
        label \in {<<>>, <<Labels[i]>>},
        lead \in {<<>>, <<" ">>, <<"\n">>},
        text \in TextsOf(Letters[i]),
        sep \in {<<>>, <<"\n">>, <<"<br/>">>} }

Bodies == { a \o b \o c : a \in SectionTexts(1), b \in SectionTexts(2), c \in SectionTexts(3) }

\* extract_sections(body_text_html) is called
InitSections ==
    /\ body_text_html \in Bodies
    /\ xpc = "call"
    /\ sections = NoSections
    \* neither job is running
    /\ pages = <<>> /\ target_date = "" /\ missing_env = FALSE /\ BUCKET_NAME = ""
    /\ urllib_bound = FALSE /\ pc = "idle" /\ all_sharepoint_items = <<>>
    /\ InitEffectsOfExtract
    /\ IdleIndex
    /\ IdleLister

\* Lines 91-113
CallSections ==
    /\ xpc = "call"
    /\ sections' = extract_sections(body_text_html)
    /\ xpc' = "returned"
    /\ UNCHANGED <<evars, ivars, lvars, body_text_html>>

NextSections == CallSections

SpecSections == InitSections /\ [][NextSections]_vars

(* ----------------------- claims on the Paginated Fetcher ---------------- *)

RECURSIVE ValuesOf(_, _)
\* the items of the pages urls[1..m], concatenated in that order
ValuesOf(urls, m) == IF m = 0 THEN <<>> ELSE ValuesOf(urls, m - 1) \o pages[urls[m]].value

AllOf(lg, resp) == \A i \in 1..Len(lg) : lg[i].resp = resp

C9_PutFailureReturnsFalse ==
    (puts # <<>> /\ puts[Len(puts)].outcome = "error") =>
        (store_ret = "False" /\ raised # "TypeError")

Complete(d) == d.summary = "text" /\ d.full = "vec" /\ d.sv = "vec"

\* the record loop of the file fi is running
InRecordLoop == ipc \in {"summary", "emb_full", "emb_sum", "index"}

RECURSIVE Positions(_)
\* the (file, record) pairs that have reached a terminal state when the files
\* 1..k have been read: every record of a finished file, and the records before
\* ri of the file whose record loop is running
Positions(k) ==
    IF k = 0 THEN <<>>
    ELSE Positions(k - 1) \o
         [r \in 1..(IF InRecordLoop /\ k = Len(file_log) THEN ri - 1 ELSE file_log[k])
             |-> <<k, r>>]

\* C6: every document handed to the index writer carries a non-empty generated
\* summary and both embedding vectors, and the writer is only ever reached with
\* all three present.
C6_OnlyCompleteDocuments ==
    /\ \A i \in 1..Len(es_docs) : Complete(es_docs[i])
    /\ ipc = "index" => (summary_text = "text" /\ full_vec = "vec" /\ sum_vec = "vec")

C6_Witness ==
    /\ Len(es_docs) = 2 /\ Complete(es_docs[2])
    /\ \E i \in 1..Len(done_recs) : done_recs[i].state = "SKIPPED"

\* C7: a record that ends at an enrichment step (summary, full embedding, summary
\* embedding) ends SKIPPED with no document handed to the index writer, and
\* whenever a record ends with records left in its file, the next record starts
\* from the first step with no state carried over; so every record of every file
\* read reaches a terminal state, in order, whatever happened to earlier ones.
C7_FailureIsolated ==
    /\ [](/\ [i \in 1..Len(done_recs) |-> <<done_recs[i].file, done_recs[i].rec>>]
               = Positions(Len(file_log))
          /\ \A i \in 1..Len(done_recs) :
                done_recs[i].state = "SKIPPED" =>
                   \A j \in 1..Len(es_docs) :
                      <<es_docs[j].file, es_docs[j].rec>>
                         # <<done_recs[i].file, done_recs[i].rec>>)
    /\ [][ Len(done_recs') = Len(done_recs) + 1 =>
            /\ done_recs'[Len(done_recs')].file = fi
            /\ done_recs'[Len(done_recs')].rec = ri
            /\ ipc \in {"summary", "emb_full", "emb_sum"} =>
                  /\ done_recs'[Len(done_recs')].state = "SKIPPED"
                  /\ es_docs' = es_docs
            /\ ri < cur_len =>
                  /\ ipc' = "summary" /\ ri' = ri + 1 /\ fi' = fi /\ cur_len' = cur_len
                  /\ summary_text' = "unset" /\ full_vec' = "unset" /\ sum_vec' = "unset"
         ]_vars

C7_Witness ==
    /\ Len(done_recs) >= 2
    /\ done_recs[1] = [file |-> 1, rec |-> 1, state |-> "SKIPPED"]
    /\ done_recs[2] = [file |-> 1, rec |-> 2, state |-> "HANDED"]
    /\ es_docs # <<>>
    /\ es_docs[1].file = 1 /\ es_docs[1].rec = 2 /\ es_docs[1].indexed

\* C8: when the stage returns, total_reports_indexed is the number of records
\* whose summary and two embeddings were generated and whose index write
\* reported success; a single file of two records, one skipped and one indexed,
\* gives one document and a total of 1.
C8_IndexedCount ==
    (ipc = "done" /\ iret = "SUCCESS") =>
        /\ total_reports_indexed =
              Cardinality({i \in 1..Len(es_docs) : Complete(es_docs[i]) /\ es_docs[i].indexed})
        /\ (/\ nfiles = 1 /\ file_log = <<2>>
            /\ \E i \in 1..2 : done_recs[i].state = "SKIPPED"
            /\ \E i \in 1..Len(es_docs) : es_docs[i].indexed)
           => (Len(es_docs) = 1 /\ total_reports_indexed = 1)

C8_Witness ==
    /\ ipc = "done" /\ iret = "SUCCESS" /\ iexit = 0
    /\ nfiles = 1 /\ file_log = <<2>>
    /\ done_recs[1].state = "SKIPPED" /\ done_recs[2].state = "HANDED"
    /\ Len(es_docs) = 1 /\ es_docs[1].indexed
    /\ total_reports_indexed = 1


(* ----------------------------- C11 .. C20 ------------------------------ *)

\* the exceptions that leave the page loop of lines 123-157
FetchFailures == {"AuthException", "HTTPError", "RequestException", "FetchException"}

\* the target day of the run, written YYYY-MM-DD
TargetDay == IF target_date \in {"2024-01-02", "2024-1-2"} THEN "2024-01-02" ELSE "2024-01-01"

IsJsonName(name) == name = <<"reports/", "r", ".json">>

\* key a comes before key b in the listing
ListedBefore(a, b) == a.id[1] < b.id[1] \/ (a.id[1] = b.id[1] /\ a.id[2] < b.id[2])

\* C12: the first list_objects_v2 call carries no token and every later call
\* carries the token the page before returned; the function calls again exactly
\* while the last page returned a token; when it has returned, json_keys holds
\* the listed keys whose name ends in .json, each once, all of them, in listing
\* order (the empty list when there is none), and no exception was raised.
C12_ListsJsonKeys ==
    (lpc \in {"list", "done"} /\ lraised = "none") =>
       /\ Len(list_calls) = Len(served)
       /\ \A k \in 1..Len(list_calls) :
             list_calls[k] = IF k = 1 THEN NoToken ELSE served[k - 1].NextContinuationToken
       /\ \A k \in 1..(Len(served) - 1) : served[k].NextContinuationToken # NoToken
       /\ lpc = "list" => (served = <<>> \/ served[Len(served)].NextContinuationToken # NoToken)
       /\ lpc = "done" =>
             /\ served # <<>>
             /\ served[Len(served)].NextContinuationToken = NoToken
             /\ \A i \in 1..Len(json_keys) :
                   /\ IsJsonName(json_keys[i].name)
                   /\ json_keys[i].id[1] \in 1..Len(served)
                   /\ json_keys[i].id[2] \in 1..Len(served[json_keys[i].id[1]].Contents)
                   /\ served[json_keys[i].id[1]].Contents[json_keys[i].id[2]] = json_keys[i].name
             /\ \A i, j \in 1..Len(json_keys) : i < j => ListedBefore(json_keys[i], json_keys[j])
             /\ \A k \in 1..Len(served) : \A j \in 1..Len(served[k].Contents) :
                   IsJsonName(served[k].Contents[j]) =>
                      \E i \in 1..Len(json_keys) : json_keys[i].id = <<k, j>>

C12_Witness ==
    /\ lpc = "done" /\ lraised = "none"
    /\ Len(served) = 2 /\ Len(list_calls) = 2
    /\ Len(json_keys) = 2
    /\ json_keys[1].id = <<1, 2>> /\ json_keys[2].id = <<2, 1>>
    /\ served[1].Contents[1] = <<"reports/", "r", ".json", ".bak">>


\* C13: a job that has ended exited with 0 or 1; 0 exactly when it returned
\* SUCCESS with data (records stored by the extraction, at least one JSON object
\* listed by the indexing); 1 when a setting was missing, when no data was
\* found, and when an exception escaped.
C13_ExitCodes ==
    /\ pc = "done" =>
          /\ exitCode \in {0, 1}
          /\ exitCode = 0 <=> (raised = "none" /\ ret = "SUCCESS" /\ all_sharepoint_items # <<>>)
          /\ (target_date = "" \/ EnvCheckFails(missing_env, BUCKET_NAME)) => exitCode = 1
    /\ ipc = "done" =>
          /\ iexit \in {0, 1}
          /\ iexit = 0 <=> (iraised = "none" /\ iret = "SUCCESS" /\ nfiles > 0)
          /\ ienv_missing => iexit = 1


\* C14: in a job launched with a required setting unset (TARGET_DATE, one of the
\* SharePoint settings or BUCKET_NAME for the extraction; one of the seven
\* settings of the indexing), nothing is ever requested from the remote API,
\* listed, read from or put to storage, summarised, embedded or handed to the
\* index writer, and the job ends with ValueError (exit 1), or with exit 1
\* straight from __main__ when TARGET_DATE is the one unset.
C14_ConfigFailFast ==
    /\ (pc # "idle" /\ (target_date = "" \/ missing_env \/ BUCKET_NAME = "")) =>
          /\ nreq = 0 /\ log = <<>> /\ fetched = <<>>
          /\ \A u \in DOMAIN url_requests : url_requests[u] = 0
          /\ puts = <<>> /\ store_ret = "none"
          /\ pc \in {"start", "done"}
          /\ pc = "done" =>
                /\ exitCode = 1 /\ ret = "none"
                /\ raised = IF target_date = "" THEN "none" ELSE "ValueError"
    /\ ienv_missing =>
          /\ ~listed /\ nfiles = 0
          /\ file_log = <<>> /\ last_kind = "none"
          /\ done_recs = <<>> /\ es_docs = <<>>
          /\ ipc \in {"start", "done"}
          /\ ipc = "done" => (iraised = "ValueError" /\ iexit = 1 /\ iret = "none")

C14_Witness ==
    /\ pc = "done" /\ raised = "ValueError" /\ exitCode = 1
    /\ BUCKET_NAME = "" /\ ~missing_env /\ urllib_bound
    /\ target_date = "2024-01-01" /\ Len(pages) = 2 /\ nreq = 0


\* the object read last yielded no record list, and nothing was done for it:
\* no record of it reached a terminal state, none is in progress, no document
\* of it was handed to the index writer
NothingDoneForLastFile ==
    /\ file_log # <<>> /\ file_log[Len(file_log)] = 0
    /\ ~InRecordLoop
    /\ \A i \in 1..Len(done_recs) : done_recs[i].file # Len(file_log)
    /\ \A i \in 1..Len(es_docs) : es_docs[i].file # Len(file_log)

\* the loop of line 181 has gone on to the key after the object read last, or,
\* that object being the last one listed, the function has returned SUCCESS
WentOnAfterLastFile ==
    \/ ipc = "file" /\ fi = Len(file_log) + 1 /\ fi <= nfiles
    \/ ipc = "done" /\ Len(file_log) = nfiles /\ iraised = "none" /\ iret = "SUCCESS"

\* C15: after an object whose content is a JSON value other than an array, or
\* an empty array, no summary, embedding or index call has been made for it,
\* and the stage is at the next listed key (or has returned, after the last).
C15_MalformedSkipped ==
    last_kind \in {"notlist", "empty"} => (NothingDoneForLastFile /\ WentOnAfterLastFile)

C15_Witness ==
    /\ last_kind = "notlist" /\ file_log = <<0>>
    /\ ipc = "file" /\ fi = 2 /\ nfiles = 2

\* C16 as stated: once an object could not be read or parsed, the stage has
\* ended with a non-zero exit status.
C16_FileFailureAborts ==
    last_kind \in {"unreadable", "badjson"} => (ipc = "done" /\ iexit = 1)

\* C16, amended: an object that cannot be read or parsed is skipped like a
\* malformed one: nothing is done for it, the stage goes on to the next listed
\* key, and when it was the last one the stage returns SUCCESS and exits 0.
C16_FileFailureSkipped ==
    last_kind \in {"unreadable", "badjson"} =>
       /\ NothingDoneForLastFile
       /\ WentOnAfterLastFile
       /\ iraised = "none"
       /\ ipc = "done" => iexit = 0

C16_Witness ==
    /\ last_kind = "badjson" /\ file_log = <<2, 0>>
    /\ ipc = "done" /\ iexit = 0 /\ iret = "SUCCESS"
    /\ total_files_processed = 1


\* C17: when a document is handed to the index writer and the write does not
\* succeed, the count of the file is left as it was, no exception leaves the
\* stage, the next record of the file starts when there is one, and otherwise
\* the file is closed with the count it had; so a total never includes a record
\* whose write failed.
C17_WriteFailureNotCounted ==
    /\ [][ (Len(es_docs') = Len(es_docs) + 1 /\ ~es_docs'[Len(es_docs')].indexed) =>
            /\ successful_indexes_in_file' = successful_indexes_in_file
            /\ iraised' = "none"
            /\ ri < cur_len =>
                  /\ ipc' = "summary" /\ ri' = ri + 1 /\ fi' = fi
                  /\ total_reports_indexed' = total_reports_indexed
            /\ ri = cur_len =>
                  /\ total_reports_indexed' = total_reports_indexed + successful_indexes_in_file
                  /\ total_files_processed' = total_files_processed + 1
                  /\ ipc' \in {"file", "done"}
                  /\ ipc' = "done" => (iret' = "SUCCESS" /\ iexit' = 0)
         ]_vars
    /\ [](total_reports_indexed + (IF InRecordLoop THEN successful_indexes_in_file ELSE 0)
             <= Cardinality({i \in 1..Len(es_docs) : es_docs[i].indexed}))

C17_Witness ==
    /\ ipc = "done" /\ iret = "SUCCESS" /\ nfiles = 1 /\ file_log = <<2>>
    /\ Len(es_docs) = 2
    /\ es_docs[1].rec = 1 /\ ~es_docs[1].indexed
    /\ es_docs[2].rec = 2 /\ es_docs[2].indexed
    /\ total_reports_indexed = 1


\* position a comes before position b in (object, record) order
Before(a, b) == a.file < b.file \/ (a.file = b.file /\ a.rec < b.rec)

\* C18: objects are read in listing order, one get_object per key: the k-th
\* read is of the k-th key; the records that have reached a terminal state are
\* in strictly increasing (object, record) order, and so are the documents
\* handed to the index writer, each of which is the record that ended at that
\* moment; hence the index writes are a subsequence of the processing order
\* and no record is processed or written twice.
C18_ProcessingOrder ==
    /\ [](/\ \A i, j \in 1..Len(done_recs) : i < j => Before(done_recs[i], done_recs[j])
          /\ \A i, j \in 1..Len(es_docs) : i < j => Before(es_docs[i], es_docs[j])
          /\ \A j \in 1..Len(es_docs) : \E i \in 1..Len(done_recs) :
                /\ done_recs[i].file = es_docs[j].file
                /\ done_recs[i].rec = es_docs[j].rec
                /\ done_recs[i].state = "HANDED"
          /\ InRecordLoop =>
                /\ fi = Len(file_log) /\ ri \in 1..cur_len /\ cur_len = file_log[fi]
                /\ \A i \in 1..Len(done_recs) :
                      Before(done_recs[i], [file |-> fi, rec |-> ri])
          /\ Len(file_log) <= nfiles)
    /\ [][ /\ Len(file_log') = Len(file_log) + 1 =>
                (ipc = "file" /\ fi = Len(file_log) + 1)
           /\ (ipc = "file" /\ ipc' = "summary") => (ri' = 1 /\ fi' = fi)
           /\ Len(es_docs') = Len(es_docs) + 1 =>
                /\ es_docs'[Len(es_docs')].file = fi /\ es_docs'[Len(es_docs')].rec = ri
                /\ Len(done_recs') = Len(done_recs) + 1
         ]_vars

C18_Witness ==
    /\ ipc = "done" /\ nfiles = 2 /\ file_log = <<2, 2>>
    /\ Len(done_recs) = 4
    /\ done_recs[2].state = "SKIPPED" /\ done_recs[3].state = "SKIPPED"
    /\ Len(es_docs) = 2
    /\ es_docs[1].file = 1 /\ es_docs[1].rec = 1
    /\ es_docs[2].file = 2 /\ es_docs[2].rec = 2


\* C19: extract_sections on the body 概要：A詳細：B所感：C returns 概要 = A,
\* 詳細 = B, 所感 = C, and on a body that lacks a label it returns "N/A" in the
\* field of that label.
C19_SectionSplitter ==
    xpc = "returned" =>
       /\ body_text_html = <<"Gaiyou:", "A", "Shousai:", "B", "Shokan:", "C">> =>
             sections = [k \in SectionNames |->
                            IF k = "Gaiyou" THEN <<"A">>
                            ELSE IF k = "Shousai" THEN <<"B">> ELSE <<"C">>]
       /\ (\A j \in 1..Len(body_text_html) : body_text_html[j] # "Gaiyou:")
             => sections["Gaiyou"] = <<"N/A">>
       /\ (\A j \in 1..Len(body_text_html) : body_text_html[j] # "Shousai:")
             => sections["Shousai"] = <<"N/A">>
       /\ (\A j \in 1..Len(body_text_html) : body_text_html[j] # "Shokan:")
             => sections["Shokan"] = <<"N/A">>


StepOrder == <<"summary", "emb_full", "emb_sum", "index">>

\* C21: the calls made for a record are an initial part of summary request,
\* full-embedding request, summary-embedding request, index write, each at
\* most once, and every call before the last one succeeded: after a failed
\* step no further call is made for the record; the record loop stands at the
\* step after the calls made so far.
C21_StepOrder ==
    /\ Len(rec_calls) <= Len(StepOrder)
    /\ \A i \in 1..Len(rec_calls) : rec_calls[i].call = StepOrder[i]
    /\ \A i \in 1..(Len(rec_calls) - 1) : rec_calls[i].ok
    /\ ipc = "emb_full" => (Len(rec_calls) = 1 /\ rec_calls[1].ok)
    /\ ipc = "emb_sum" => (Len(rec_calls) = 2 /\ rec_calls[2].ok)
    /\ ipc = "index" => (Len(rec_calls) = 3 /\ rec_calls[3].ok)
    /\ (Len(rec_calls) = 4) =>
          /\ es_docs # <<>>
          /\ es_docs[Len(es_docs)].indexed = rec_calls[4].ok
          /\ ~InRecordLoop \/ ipc = "summary"
    /\ (rec_calls # <<>> /\ Len(rec_calls) < 4 /\ ~rec_calls[Len(rec_calls)].ok) =>
          /\ done_recs # <<>>
          /\ done_recs[Len(done_recs)].state = "SKIPPED"
          /\ \A j \in 1..Len(es_docs) :
                <<es_docs[j].file, es_docs[j].rec>>
                   # <<done_recs[Len(done_recs)].file, done_recs[Len(done_recs)].rec>>

C21_Witness ==
    /\ Len(rec_calls) = 2 /\ rec_calls[1].ok /\ ~rec_calls[2].ok
    /\ Len(done_recs) = 2
    /\ done_recs[1].state = "HANDED" /\ done_recs[2].state = "SKIPPED"
    /\ Len(es_docs) = 1


\* the stage has returned SUCCESS after reading every listed object, with each
\* record of each object read in exactly one terminal state
StageCompleted ==
    /\ ipc = "done" /\ iraised = "none" /\ iret = "SUCCESS" /\ iexit = 0
    /\ Len(file_log) = nfiles
    /\ total_files_processed = Cardinality({k \in 1..nfiles : file_log[k] > 0})
    /\ Len(done_recs) = Len(Positions(nfiles))
    /\ \A k \in 1..nfiles : \A r \in 1..file_log[k] :
          Cardinality({i \in 1..Len(done_recs) :
                          done_recs[i].file = k /\ done_recs[i].rec = r}) = 1
    /\ \A i \in 1..Len(done_recs) : done_recs[i].state \in {"HANDED", "SKIPPED"}

\* C22: once the listing has returned keys and the search-engine client is
\* connected (the loop of line 181 is entered), the stage eventually returns
\* SUCCESS with every record of every object read in exactly one terminal
\* state, whatever the answers of the summary, embedding and index calls; and
\* no exception ever leaves the loop.
C22_StageCompletes ==
    /\ (ipc = "file") ~> StageCompleted
    /\ []((ipc \notin {"start", "idle"} /\ nfiles > 0 /\ iraised # "ConnectionError")
             => iraised = "none")

C22_Witness ==
    /\ StageCompleted
    /\ nfiles = 2 /\ file_log = <<2, 2>>
    /\ \A i \in 1..Len(done_recs) : done_recs[i].state = "SKIPPED"
    /\ es_docs = <<>> /\ total_reports_indexed = 0 /\ total_files_processed = 2

====
